---- MODULE Spec2Model ----
(***************************************************************************)
(* Batch file renamer: the command-line tool (rename_images.py) and the    *)
(* Tkinter front end (gui_rename.py).                                      *)
(*                                                                         *)
(* A file name or path is a sequence of one-character strings, so that     *)
(* the string operations of the code (replace, format, splitext, zfill,    *)
(* strip, lower, join) are computed character by character.                *)
(***************************************************************************)
EXTENDS Integers, Sequences, FiniteSets, TLC

(***************************************************************************)
(* Strings                                                                 *)
(***************************************************************************)

\* The characters of the model, in code-point order (Ord compares them).
Ascii ==
    << " ", "-", ".", "/", "0", "1", "2", "3", "4", "5", "6", "7", "8", "9",
       ":", "A", "B", "P", "_", "a", "b", "c", "d", "e", "g", "h", "m", "n", "p",
       "r", "s", "w", "x", "y", "{", "}" >>

Ord(c) == CHOOSE i \in 1..Len(Ascii) : Ascii[i] = c

DigitChars == << "0", "1", "2", "3", "4", "5", "6", "7", "8", "9" >>

\* str.isdigit for one character
IsDigit(c) == \E i \in 1..10 : DigitChars[i] = c

DigitVal(c) == (CHOOSE i \in 1..10 : DigitChars[i] = c) - 1

\* str.lower for one character
LowerChar(c) ==
    CASE c = "A" -> "a"
      [] c = "B" -> "b"
      [] c = "P" -> "p"
      [] OTHER -> c

\* str.lower
Lower(s) == [i \in 1..Len(s) |-> LowerChar(s[i])]

\* s[i:] and s[:i] with Python's 0-based index i
From(s, i) == SubSeq(s, i + 1, Len(s))
Upto(s, i) == SubSeq(s, 1, i)

\* str.startswith / str.endswith
StartsWith(s, pre) == Len(pre) <= Len(s) /\ SubSeq(s, 1, Len(pre)) = pre
EndsWith(s, suf) ==
    Len(suf) <= Len(s) /\ SubSeq(s, Len(s) - Len(suf) + 1, Len(s)) = suf

\* sub in s
Contains(s, sub) ==
    \E i \in 0..(Len(s) - Len(sub)) : SubSeq(s, i + 1, i + Len(sub)) = sub

\* str.replace(old, new): every non-overlapping occurrence, left to right
RECURSIVE Replace(_, _, _)
Replace(s, old, new) ==
    IF Len(s) < Len(old) THEN s
    ELSE IF StartsWith(s, old) THEN new \o Replace(From(s, Len(old)), old, new)
    ELSE << s[1] >> \o Replace(Tail(s), old, new)

\* str.strip(): the model's only whitespace character is the blank
RECURSIVE LStrip(_)
LStrip(s) == IF s # << >> /\ s[1] = " " THEN LStrip(Tail(s)) ELSE s
RECURSIVE RStrip(_)
RStrip(s) ==
    IF s # << >> /\ s[Len(s)] = " " THEN RStrip(SubSeq(s, 1, Len(s) - 1)) ELSE s
Strip(s) == RStrip(LStrip(s))

\* str(n) for a natural number
RECURSIVE NatStr(_)
NatStr(n) ==
    IF n < 10 THEN << DigitChars[n + 1] >>
    ELSE NatStr(n \div 10) \o << DigitChars[(n % 10) + 1] >>

\* str(n) for an int
Str(n) == IF n < 0 THEN << "-" >> \o NatStr(-n) ELSE NatStr(n)

\* int(t) for a string of digits
RECURSIVE IntOf(_)
IntOf(t) ==
    IF t = << >> THEN 0
    ELSE 10 * IntOf(SubSeq(t, 1, Len(t) - 1)) + DigitVal(t[Len(t)])

Zeros(k) == [i \in 1..k |-> "0"]
Blanks(k) == [i \in 1..k |-> " "]

\* str.zfill(width): pads on the left with zeros, after a leading sign
Zfill(s, width) ==
    IF Len(s) >= width THEN s
    ELSE IF s # << >> /\ s[1] \in {"+", "-"}
         THEN << s[1] >> \o Zeros(width - Len(s)) \o Tail(s)
         ELSE Zeros(width - Len(s)) \o s

\* str.rfind(c) for one character, 0-based, -1 when absent
RFind(s, c) ==
    IF \E i \in 1..Len(s) : s[i] = c
    THEN (CHOOSE i \in 1..Len(s) : s[i] = c /\ \A j \in (i + 1)..Len(s) : s[j] # c) - 1
    ELSE -1

\* str.find(c) for one character, 0-based, -1 when absent
Find(s, c) ==
    IF \E i \in 1..Len(s) : s[i] = c
    THEN (CHOOSE i \in 1..Len(s) : s[i] = c /\ \A j \in 1..(i - 1) : s[j] # c) - 1
    ELSE -1

(***************************************************************************)
(* os.path                                                                 *)
(***************************************************************************)

\* os.path.splitext: the extension starts at the last dot of the last path
\* component, unless only dots precede it there.  << root, ext >>
Splitext(p) ==
    LET sepIndex == RFind(p, "/")
        dotIndex == RFind(p, ".")
    IN  IF dotIndex > sepIndex
           /\ \E k \in (sepIndex + 1)..(dotIndex - 1) : p[k + 1] # "."
        THEN << Upto(p, dotIndex), From(p, dotIndex) >>
        ELSE << p, << >> >>

\* os.path.basename
Basename(p) == From(p, RFind(p, "/") + 1)

\* os.path.dirname: the head up to the last separator, trailing separators
\* dropped unless the head is separators only
Dirname(p) ==
    LET head == Upto(p, RFind(p, "/") + 1)
        RECURSIVE NoTrail(_)
        NoTrail(h) ==
            IF h # << >> /\ h[Len(h)] = "/" THEN NoTrail(SubSeq(h, 1, Len(h) - 1)) ELSE h
    IN  IF head # << >> /\ \E i \in 1..Len(head) : head[i] # "/"
        THEN NoTrail(head) ELSE head

\* os.path.join(a, b)
Join(a, b) ==
    IF StartsWith(b, << "/" >>) THEN b
    ELSE IF a = << >> \/ a[Len(a)] = "/" THEN a \o b
    ELSE a \o << "/" >> \o b

(***************************************************************************)
(* str.format(n=n)                                                         *)
(***************************************************************************)

Ok(v) == [ok |-> TRUE, val |-> v]
Raise == [ok |-> FALSE, val |-> << >>]

\* The leading digits of s, and what follows them
RECURSIVE DigitRun(_)
DigitRun(s) ==
    IF s # << >> /\ IsDigit(s[1]) THEN << s[1] >> \o DigitRun(Tail(s)) ELSE << >>
RECURSIVE NonDigitRun(_)
NonDigitRun(s) ==
    IF s # << >> /\ ~IsDigit(s[1]) THEN << s[1] >> \o NonDigitRun(Tail(s)) ELSE << >>

\* format(n, spec) for an int: the specs [0][width][d]; a zero flag pads
\* with zeros after the sign, a bare width right-aligns with blanks.  Any
\* other spec the model's patterns hold (a precision, a dangling brace) is
\* a ValueError.
FormatInt(n, spec) ==
    LET zero  == spec # << >> /\ spec[1] = "0"
        s1    == IF zero THEN Tail(spec) ELSE spec
        wtxt  == DigitRun(s1)
        width == IntOf(wtxt)
        type  == From(s1, Len(wtxt))
        body  == Str(n)
    IN  IF type \notin { << >>, << "d" >> } THEN Raise
        ELSE IF zero THEN Ok(Zfill(body, width))
        ELSE IF Len(body) >= width THEN Ok(body)
        ELSE Ok(Blanks(width - Len(body)) \o body)

\* One replacement field (the text between the braces): only the keyword
\* argument n exists, so any other field name is a KeyError / IndexError.
FormatField(field, n) ==
    LET colon == Find(field, ":")
        fname == IF colon = -1 THEN field ELSE Upto(field, colon)
        spec  == IF colon = -1 THEN << >> ELSE From(field, colon + 1)
    IN  IF fname # << "n" >> THEN Raise ELSE FormatInt(n, spec)

\* pattern.format(n=n): literal text, doubled braces, replacement fields.
\* A lone brace is a ValueError.  (A brace inside a field, which Python
\* reads as a nested field, is not among the model's patterns and is
\* taken as an error.)
RECURSIVE Format(_, _)
Format(s, n) ==
    IF s = << >> THEN Ok(<< >>)
    ELSE IF s[1] = "{" THEN
        IF Len(s) >= 2 /\ s[2] = "{"
        THEN LET r == Format(From(s, 2), n)
             IN  IF r.ok THEN Ok(<< "{" >> \o r.val) ELSE Raise
        ELSE LET close == Find(Tail(s), "}")
                 field == Upto(Tail(s), close)
             IN  IF close = -1 \/ Find(field, "{") # -1 THEN Raise
                 ELSE LET f == FormatField(field, n)
                          r == Format(From(Tail(s), close + 1), n)
                      IN  IF f.ok /\ r.ok THEN Ok(f.val \o r.val) ELSE Raise
    ELSE IF s[1] = "}" THEN
        IF Len(s) >= 2 /\ s[2] = "}"
        THEN LET r == Format(From(s, 2), n)
             IN  IF r.ok THEN Ok(<< "}" >> \o r.val) ELSE Raise
        ELSE Raise
    ELSE LET r == Format(Tail(s), n)
         IN  IF r.ok THEN Ok(<< s[1] >> \o r.val) ELSE Raise

(***************************************************************************)
(* Natural sort                                                            *)
(***************************************************************************)

\* re.split(r"(\d+)", s): runs of non-digits and digits, alternating,
\* starting and ending with a (possibly empty) run of non-digits
RECURSIVE ReSplit(_)
ReSplit(s) ==
    LET a == NonDigitRun(s)
        r == From(s, Len(a))
        d == DigitRun(r)
    IN  IF r = << >> THEN << a >>
        ELSE << a, d >> \o ReSplit(From(r, Len(d)))

\* natural_key: digit runs as ints (even positions), the rest lowercased
natural_key(s) ==
    LET t == ReSplit(s)
    IN  [i \in 1..Len(t) |-> IF i % 2 = 0 THEN IntOf(t[i]) ELSE Lower(t[i])]

\* Python's order on str: by code point, a proper prefix first
RECURSIVE StrLess(_, _)
StrLess(a, b) ==
    IF b = << >> THEN FALSE
    ELSE IF a = << >> THEN TRUE
    ELSE IF a[1] = b[1] THEN StrLess(Tail(a), Tail(b))
    ELSE Ord(a[1]) < Ord(b[1])

\* Python's order on two keys of natural_key, from position i on
RECURSIVE KeyLessFrom(_, _, _)
KeyLessFrom(k1, k2, i) ==
    IF i > Len(k2) THEN FALSE
    ELSE IF i > Len(k1) THEN TRUE
    ELSE IF k1[i] = k2[i] THEN KeyLessFrom(k1, k2, i + 1)
    ELSE IF i % 2 = 0 THEN k1[i] < k2[i] ELSE StrLess(k1[i], k2[i])

KeyLess(k1, k2) == KeyLessFrom(k1, k2, 1)

(***************************************************************************)
(* The file system                                                         *)
(***************************************************************************)

\* The directory the command-line tool works on, and its one subdirectory.
\* The directories are fixed: the program renames files only.
Dir == << "r" >>
SubDir == << "r", "/", "s" >>
Dirs == { Dir, SubDir }

\* The operating systems: os.rename on an existing destination file
\* replaces it silently on POSIX and is a FileExistsError on Windows.  File
\* names are case-sensitive on both.
Platforms == { "posix", "nt" }

RECURSIVE NoTrailSep(_)
NoTrailSep(p) ==
    IF Len(p) > 1 /\ p[Len(p)] = "/" THEN NoTrailSep(SubSeq(p, 1, Len(p) - 1)) ELSE p

\* os.path.exists(p) when fs is the set of the existing files' paths
Exists(fs, p) == p \in fs \/ NoTrailSep(p) \in Dirs

\* os.path.isfile(p)
IsFile(fs, p) == p \in fs

\* os.rename(src, dst); oserr: the operating system refuses this rename for a
\* reason of its own (permissions, a path too long).  [ok, fs]
OsRename(plat, fs, src, dst, oserr) ==
    IF oserr \/ src \notin fs \/ Dirname(dst) \notin Dirs \/ NoTrailSep(dst) \in Dirs
    THEN [ok |-> FALSE, fs |-> fs]
    ELSE IF dst \in fs /\ dst # src /\ plat = "nt"
    THEN [ok |-> FALSE, fs |-> fs]
    ELSE [ok |-> TRUE, fs |-> (fs \ {src}) \cup {dst}]

(***************************************************************************)
(* Collision resolver and name renderer                                    *)
(***************************************************************************)

\* The loop of next_free_name: the first base_i.ext, i = 1, 2, ..., that
\* does not exist
RECURSIVE ProbeFrom(_, _, _, _, _)
ProbeFrom(fs, directory, base, ext, i) ==
    LET newname == base \o << "_" >> \o Str(i) \o ext
    IN  IF ~Exists(fs, Join(directory, newname)) THEN newname
        ELSE ProbeFrom(fs, directory, base, ext, i + 1)

\* A resolver that takes the suffix _1 without probing it (a faulty variant)
next_free_name_unprobed(fs, directory, candidate) ==
    LET be == Splitext(candidate)
    IN  IF ~Exists(fs, Join(directory, candidate)) THEN candidate
        ELSE be[1] \o << "_", "1" >> \o be[2]

next_free_name(fs, directory, candidate) ==
    LET be == Splitext(candidate)
    IN  IF ~Exists(fs, Join(directory, candidate)) THEN candidate
        ELSE ProbeFrom(fs, directory, be[1], be[2], 1)

TokenN == << "-", "n" >>
PlaceholderN == << "{", "n" >>

\* render_name of gui_rename.py.  via (ghost): the branch taken.
RenderVia(pattern, n) ==
    IF Contains(pattern, PlaceholderN)
    THEN IF Format(pattern, n).ok THEN "placeholder" ELSE "fallback"
    ELSE IF Contains(pattern, TokenN) THEN "token" ELSE "append"

render_name(pattern, n, src_ext) ==
    LET name ==
            IF Contains(pattern, PlaceholderN)
            THEN LET f == Format(pattern, n)
                 IN  IF f.ok THEN f.val ELSE Replace(pattern, TokenN, Str(n))
            ELSE IF Contains(pattern, TokenN) THEN Replace(pattern, TokenN, Str(n))
            ELSE pattern \o Str(n)
    IN  IF Splitext(name)[2] = << >> THEN name \o src_ext ELSE name

(***************************************************************************)
(* Inputs of the model                                                     *)
(***************************************************************************)

\* At most MaxFiles files exist when the program starts.
MaxFiles == 2

\* The files that may exist at the start: sources, names the rendered names
\* collide with (1.p, 1_1.p), a name that differs in case only, and a
\* file of the subdirectory.
Universe ==
    { << "r", "/", "a", ".", "p" >>,
      << "r", "/", "b", ".", "p" >>,
      << "r", "/", "A", ".", "p" >>,
      << "r", "/", "1", ".", "p" >>,
      << "r", "/", "1", "_", "1", ".", "p" >>,
      << "r", "/", "s", "/", "a", ".", "p" >> }

\* --pattern / the pattern entry.  The empty pattern also stands for no
\* --pattern at all: line 83 of rename_images.py takes both the same way.
Patterns ==
    { << >>,
      << "x", "-", "n" >>,
      << "{", "n", "}" >>,
      << "{", "n", ":", "0", "2", "d", "}" >>,
      << "{", "n" >>,
      << "{", "n", "}", "-", "n" >>,
      << "s", "/", "{", "n", "}" >>,
      << "x", ".", "p" >> }

\* --prefix is varied only without --pattern, which takes precedence over it
Prefixes(pattern) == IF pattern = << >> THEN { << >>, << "x" >> } ELSE { << >> }
Starts == { 1, 99 }
Paddings == { 0, 2 }
Separator == << "_" >>
\* parse_ext_list("p")
Exts == { << ".", "p" >> }

\* All orders of a finite set
Perms(S) ==
    { f \in [1..Cardinality(S) -> S] : \A i, j \in 1..Cardinality(S) : i # j => f[i] # f[j] }

Range(f) == { f[i] : i \in DOMAIN f }

(***************************************************************************)
(* File collector                                                          *)
(***************************************************************************)

\* os.listdir(d): the names of the files and of the directories in d
Listdir(fs, d) ==
    { Basename(p) : p \in { q \in fs \cup Dirs : q # d /\ Dirname(q) = d } }

\* find_images: the files of the directory whose lowercased name ends with
\* one of the extensions, sorted.  The result of list.sort (stable) on a
\* listing in an arbitrary order is any order of the entries that is
\* non-decreasing in the key; modification times are arbitrary, so that
\* sorting by them gives any order.
find_images(fs, directory, exts, sort_by) ==
    LET entries == { name \in Listdir(fs, directory) :
                        /\ IsFile(fs, Join(directory, name))
                        /\ \E e \in exts : EndsWith(Lower(name), e) }
    IN  IF sort_by = "mtime" THEN Perms(entries)
        ELSE { f \in Perms(entries) :
                 \A i \in 1..(Len(f) - 1) :
                    ~KeyLess(natural_key(f[i + 1]), natural_key(f[i])) }

(***************************************************************************)
(* rename_sequence (command line)                                          *)
(***************************************************************************)

\* One pass of the planning loop, lines 78-102.  n, text, name and via are
\* ghost fields: the index used, the index text put into the name (none when
\* a placeholder rendered it), the name before collision resolution, the
\* branch taken.
SeqItem(fs, a, fname, n) ==
    LET ext      == Splitext(fname)[2]
        number   == Zfill(Str(n), a.padding)
        numbered == IF a.prefix # << >> THEN a.prefix \o a.separator \o number ELSE number
        f        == Format(a.pattern, n)
        rendered == IF f.ok THEN f.val ELSE numbered
        newname  == IF a.pattern # << >>
                    THEN IF Splitext(rendered)[2] # << >> THEN rendered ELSE rendered \o ext
                    ELSE numbered \o ext
    IN  [ src  |-> Join(a.directory, fname),
          dst  |-> Join(a.directory, next_free_name(fs, a.directory, newname)),
          n    |-> n,
          text |-> IF a.pattern # << >> /\ f.ok THEN << >> ELSE number,
          name |-> newname,
          via  |-> IF a.pattern = << >> THEN "prefix"
                   ELSE IF f.ok THEN "placeholder" ELSE "fallback" ]

\* A planning loop that never advances the index (a faulty variant)
RECURSIVE SeqPlanSameIndex(_, _, _, _)
SeqPlanSameIndex(fs, a, fnames, n) ==
    IF fnames = << >> THEN << >>
    ELSE << SeqItem(fs, a, Head(fnames), n) >> \o SeqPlanSameIndex(fs, a, Tail(fnames), n)

\* The planning loop, lines 76-103
RECURSIVE SeqPlan(_, _, _, _)
SeqPlan(fs, a, fnames, n) ==
    IF fnames = << >> THEN << >>
    ELSE << SeqItem(fs, a, Head(fnames), n) >> \o SeqPlan(fs, a, Tail(fnames), n + 1)

Entry(k, line, res) == [k |-> k, line |-> line, res |-> res]

\* The renaming loop, lines 106-111, from action k on: os.rename is not
\* guarded, so its exception ends the call.  [fs, log, raised]
RECURSIVE SeqRun(_, _, _, _, _, _)
SeqRun(plat, fs, plan, k, dry_run, bad) ==
    IF k > Len(plan) THEN [fs |-> fs, log |-> << >>, raised |-> FALSE]
    ELSE IF dry_run
    THEN LET r == SeqRun(plat, fs, plan, k + 1, dry_run, bad)
         IN  [r EXCEPT !.log = << Entry(k, "DRY-RUN", "none") >> \o r.log]
    ELSE LET o == OsRename(plat, fs, plan[k].src, plan[k].dst, k \in bad)
         IN  IF ~o.ok
             THEN [fs |-> fs, log |-> << Entry(k, "Renaming", "error") >>, raised |-> TRUE]
             ELSE LET r == SeqRun(plat, o.fs, plan, k + 1, dry_run, bad)
                  IN  [r EXCEPT !.log = << Entry(k, "Renaming", "ok") >> \o r.log]

\* A renaming loop that ignores dry_run (a faulty variant)
RunSequenceIgnoringDryRun(plat, fs, plan, dry_run, bad) ==
    SeqRun(plat, fs, plan, 1, FALSE, bad)

\* The renaming loop of rename_sequence, lines 106-111
RunSequence(plat, fs, plan, dry_run, bad) == SeqRun(plat, fs, plan, 1, dry_run, bad)

name_raw == << "n", "a", "m", "e", "_", "r", "a", "w" >>
name_change == << "n", "a", "m", "e", "_", "c", "h", "a", "n", "g", "e" >>

\* The mapping file: whether it exists, and its rows of fields, the header
\* row first.  csv.writer and csv.reader carry every field unchanged.
NoFile == [exists |-> FALSE, rows |-> << >>]

\* The rows written by lines 116-120 and by export_csv, lines 301-305
MappingRows(plan) ==
    << << name_raw, name_change >> >>
    \o [k \in 1..Len(plan) |-> << Basename(plan[k].src), Basename(plan[k].dst) >>]

(***************************************************************************)
(* apply_csv_mapping (command line)                                        *)
(***************************************************************************)

\* csv.DictReader: rows without any field are skipped; the first of the
\* others gives the field names
ReadRows(rows) ==
    LET NonEmpty(r) == r # << >>
    IN  SelectSeq(rows, NonEmpty)

\* row.get(key) or '': the value under the last column of that name; a row
\* too short to reach it holds None there
Field(fieldnames, row, key) ==
    LET idx == CHOOSE i \in 1..Len(fieldnames) :
                   /\ fieldnames[i] = key
                   /\ \A j \in (i + 1)..Len(fieldnames) : fieldnames[j] # key
    IN  IF idx <= Len(row) THEN row[idx] ELSE << >>

\* Lines 156-160: the first name of the listing that equals raw up to case;
\* << >> when there is none (no listed name is empty)
FirstMatch(ls, raw) ==
    IF \E i \in 1..Len(ls) : Lower(ls[i]) = Lower(raw)
    THEN ls[CHOOSE i \in 1..Len(ls) :
                /\ Lower(ls[i]) = Lower(raw)
                /\ \A j \in 1..(i - 1) : Lower(ls[j]) # Lower(raw)]
    ELSE << >>

\* Lines 153-165: the source of a row, found by its exact name, else by the
\* first listed name equal to it up to case; << >> when there is none
\* A lookup that tries the match up to case first (a faulty variant)
ResolveSourceCaselessFirst(fs, directory, raw, ls) ==
    IF FirstMatch(ls, raw) # << >> THEN Join(directory, FirstMatch(ls, raw))
    ELSE IF Exists(fs, Join(directory, raw)) THEN Join(directory, raw)
    ELSE << >>

ResolveSource(fs, directory, raw, ls) ==
    IF Exists(fs, Join(directory, raw)) THEN Join(directory, raw)
    ELSE IF FirstMatch(ls, raw) # << >> THEN Join(directory, FirstMatch(ls, raw))
    ELSE << >>

Diag(kind, row) == [kind |-> kind, row |-> row]

\* The reading loop, lines 147-177, from data row i on; ls is the order in
\* which os.listdir lists the directory.  [actions, diag]
RECURSIVE CsvPlan(_, _, _, _, _, _)
CsvPlan(fs, directory, fieldnames, data, i, ls) ==
    IF i > Len(data) THEN [actions |-> << >>, diag |-> << >>]
    ELSE
    LET rest  == CsvPlan(fs, directory, fieldnames, data, i + 1, ls)
        raw   == Strip(Field(fieldnames, data[i], name_raw))
        want  == Strip(Field(fieldnames, data[i], name_change))
        src   == ResolveSource(fs, directory, raw, ls)
        be    == Splitext(want)
        dst_name == IF be[2] = << >> THEN be[1] \o Splitext(src)[2] ELSE want
    IN  IF raw = << >> \/ want = << >>
        THEN [rest EXCEPT !.diag = << Diag("Skipping invalid row", i) >> \o rest.diag]
        ELSE IF src = << >>
        THEN [rest EXCEPT !.diag = << Diag("Source not found for mapping", i) >> \o rest.diag]
        ELSE [rest EXCEPT !.actions =
                << [ src  |-> src,
                     dst  |-> Join(directory, next_free_name(fs, directory, dst_name)),
                     n    |-> i,
                     text |-> << >>,
                     name |-> dst_name,
                     via  |-> IF src = Join(directory, raw) THEN "exact" ELSE "caseless" ] >>
                \o rest.actions]

\* A renaming loop whose os.rename is guarded (lines 179-187, and lines
\* 275-279 of gui_rename.py): a failure is noted and the loop goes on.
\* [fs, log]
RECURSIVE TryRun(_, _, _, _, _, _)
TryRun(plat, fs, plan, k, dry_run, bad) ==
    IF k > Len(plan) THEN [fs |-> fs, log |-> << >>]
    ELSE IF dry_run
    THEN LET r == TryRun(plat, fs, plan, k + 1, dry_run, bad)
         IN  [r EXCEPT !.log = << Entry(k, "DRY-RUN", "none") >> \o r.log]
    ELSE LET o == OsRename(plat, fs, plan[k].src, plan[k].dst, k \in bad)
             r == TryRun(plat, o.fs, plan, k + 1, dry_run, bad)
         IN  [r EXCEPT !.log =
                << Entry(k, "Renaming", IF o.ok THEN "ok" ELSE "error") >> \o r.log]

(***************************************************************************)
(* _build_actions (graphical front end)                                    *)
(***************************************************************************)

\* A pass of the loop that puts the index in without zero-filling it (a
\* faulty variant)
GuiItemUnpadded(fs, pattern, padding, src, n) ==
    LET ext    == Splitext(src)[2]
        padded == Contains(pattern, TokenN) /\ padding # 0
        num    == Str(n)
        name   == IF padded THEN Replace(pattern, TokenN, num)
                  ELSE render_name(pattern, n, ext)
        name2  == IF Splitext(name)[2] = << >> THEN name \o ext ELSE name
    IN  [ src  |-> src,
          dst  |-> Join(Dirname(src), next_free_name(fs, Dirname(src), name2)),
          n    |-> n,
          text |-> IF padded THEN num
                   ELSE IF RenderVia(pattern, n) = "placeholder" THEN << >> ELSE Str(n),
          name |-> name2,
          via  |-> IF padded THEN "padded token" ELSE RenderVia(pattern, n) ]

\* One pass of the loop of _build_actions, lines 236-253
GuiItem(fs, pattern, padding, src, n) ==
    LET ext    == Splitext(src)[2]
        padded == Contains(pattern, TokenN) /\ padding # 0
        num    == Zfill(Str(n), padding)
        name   == IF padded THEN Replace(pattern, TokenN, num)
                  ELSE render_name(pattern, n, ext)
        name2  == IF Splitext(name)[2] = << >> THEN name \o ext ELSE name
    IN  [ src  |-> src,
          dst  |-> Join(Dirname(src), next_free_name(fs, Dirname(src), name2)),
          n    |-> n,
          text |-> IF padded THEN num
                   ELSE IF RenderVia(pattern, n) = "placeholder" THEN << >> ELSE Str(n),
          name |-> name2,
          via  |-> IF padded THEN "padded token" ELSE RenderVia(pattern, n) ]

RECURSIVE GuiPlan(_, _, _, _, _)
GuiPlan(fs, pattern, padding, srcs, n) ==
    IF srcs = << >> THEN << >>
    ELSE << GuiItem(fs, pattern, padding, Head(srcs), n) >>
         \o GuiPlan(fs, pattern, padding, Tail(srcs), n + 1)

\* _build_actions: the pattern entry is stripped, the plan starts at start
build_actions(fs, srcs, pattern_var, start_var, padding_var) ==
    GuiPlan(fs, Strip(pattern_var), padding_var, srcs, start_var)

\* The lines of the preview pane, lines 263-264
PreviewLines(plan) ==
    [k \in 1..Len(plan) |-> << Basename(plan[k].src), Basename(plan[k].dst) >>]

(***************************************************************************)
(* State                                                                   *)
(***************************************************************************)

VARIABLES
    disk,          \* the paths of the files that exist
    mapfile,       \* the mapping file (--map-csv, --apply-csv, the GUI's export)
    files,         \* GuiRenamer.files: the selected paths
    preview_text,  \* the lines of the GUI's preview pane
    stage,         \* "fresh", "ran" (one command ran), "replayed"
    op,            \* the last handler that ran
    args,          \* its arguments
    collected,     \* the source list its plan was built from
    actions,       \* its plan (results / actions of the code)
    log,           \* what its renaming loop did, in order
    raised,        \* it ended by an exception it did not catch
    diag,          \* its diagnostics, in order
    pre,           \* disk when it was called
    preMap,        \* mapfile when it was called
    planned        \* the plan whose mapping file the call has read

vars ==
    << disk, mapfile, files, preview_text, stage, op, args, collected,
       actions, log, raised, diag, pre, preMap, planned >>

NoArgs ==
    [ directory |-> << >>, pattern |-> << >>, prefix |-> << >>, separator |-> << >>,
      start |-> 0, padding |-> 0, dry_run |-> FALSE, map_csv |-> FALSE, csv |-> NoFile ]

Init ==
    /\ disk \in { d \in SUBSET Universe : Cardinality(d) <= MaxFiles }
    /\ mapfile = NoFile
    /\ files = << >>
    /\ preview_text = << >>
    /\ stage = "fresh"
    /\ op = "none"
    /\ args = NoArgs
    /\ collected = << >>
    /\ actions = << >>
    /\ log = << >>
    /\ raised = FALSE
    /\ diag = << >>
    /\ pre = disk
    /\ preMap = NoFile
    /\ planned = << >>

Written(plan) == [exists |-> TRUE, rows |-> MappingRows(plan)]

\* The renames of a plan the operating system refuses for a reason of its
\* own (permissions, a path too long): none in a dry run, and in the model
\* one at most in a call
Refusals(plan, dry_run) ==
    IF dry_run THEN {{}} ELSE {{}} \cup { {k} : k \in 1..Len(plan) }

(***************************************************************************)
(* Command line: rename_sequence                                           *)
(***************************************************************************)

\* rename_sequence, lines 62-125.  plat: the operating system; bad: the
\* renames it refuses; writable: whether the mapping file can be written.
RenameSequence ==
    /\ stage = "fresh"
    /\ files = << >>
    /\ \E pattern \in Patterns, start \in Starts, padding \in Paddings,
          dry_run \in BOOLEAN, map_csv \in BOOLEAN, sort_by \in {"name", "mtime"} :
        \E prefix \in Prefixes(pattern), fnames \in find_images(disk, Dir, Exts, sort_by) :
        \E a \in { [NoArgs EXCEPT !.directory = Dir, !.pattern = pattern,
                                  !.prefix = prefix, !.separator = Separator,
                                  !.start = start, !.padding = padding,
                                  !.dry_run = dry_run, !.map_csv = map_csv] } :
        \E plan \in { SeqPlan(disk, a, fnames, start) } :
        \E plat \in Platforms, bad \in Refusals(plan, dry_run),
           writable \in (IF map_csv THEN BOOLEAN ELSE {TRUE}) :
        \E r \in { RunSequence(plat, disk, plan, dry_run, bad) } :
            /\ disk' = r.fs
            /\ mapfile' = IF map_csv /\ ~r.raised /\ writable
                          THEN Written(plan) ELSE mapfile
            /\ op' = "rename_sequence"
            /\ args' = a
            /\ collected' = [k \in 1..Len(fnames) |-> Join(Dir, fnames[k])]
            /\ actions' = plan
            /\ log' = r.log
            /\ raised' = r.raised
            /\ diag' = IF ~map_csv \/ r.raised THEN << >>
                       ELSE IF writable THEN << Diag("Mapping written", 0) >>
                       ELSE << Diag("Warning: failed to write mapping file", 0) >>
    /\ stage' = "ran"
    /\ pre' = disk
    /\ preMap' = mapfile
    /\ UNCHANGED << files, preview_text, planned >>

(***************************************************************************)
(* Command line: apply_csv_mapping                                         *)
(***************************************************************************)

Row(a, b) == << a, b >>
Name_a == << "a", ".", "p" >>
Name_b == << "b", ".", "p" >>
Name_A == << "A", ".", "p" >>
Name_1 == << "1", ".", "p" >>

\* The mapping files a user may hand to --apply-csv: no file at that path, an
\* empty file, a file without the name_change column, a file of data rows
\* without a header row, and two files with both columns (a source given in
\* another case, a blank field, a destination named twice; the columns
\* swapped, a source named twice, a row too short).
CsvInputs ==
    { NoFile,
      [exists |-> TRUE, rows |-> << >>],
      [exists |-> TRUE, rows |-> << << name_raw >>, << Name_a >> >>],
      [exists |-> TRUE, rows |-> << Row(Name_a, << "x", ".", "p" >>) >>],
      [exists |-> TRUE, rows |->
          << Row(name_raw, name_change),
             Row(Name_A, << "x" >>),
             Row(Name_b, << " " >>),
             Row(Name_b, << "x", ".", "p" >>) >>],
      [exists |-> TRUE, rows |->
          << Row(name_change, name_raw),
             Row(Name_1, Name_a),
             Row(<< "y" >>, << " ", "a", ".", "p" >>),
             << << "y" >> >> >>] }

\* The orders in which os.listdir may list a directory.  The code depends on
\* the order only through which of several names equal up to case comes
\* first (lines 157-160): every order of those names is drawn, before the
\* other names in one order.
Listings(fs, d) ==
    LET names == Listdir(fs, d)
        twins == { x \in names : \E y \in names : y # x /\ Lower(y) = Lower(x) }
        rest  == CHOOSE f \in Perms(names \ twins) : TRUE
    IN  { t \o rest : t \in Perms(twins) }

\* apply_csv_mapping(directory, csv_path, dry_run), lines 128-189, reading
\* the file csv; ls: the order in which os.listdir lists the directory.
ApplyCsv(csv) ==
    \E dry_run \in BOOLEAN, plat \in Platforms, ls \in Listings(disk, Dir) :
    \E rows \in { ReadRows(csv.rows) } :
    \E a \in { [NoArgs EXCEPT !.directory = Dir, !.dry_run = dry_run, !.csv = csv] } :
        /\ op' = "apply_csv_mapping"
        /\ args' = a
        /\ collected' = << >>
        /\ pre' = disk
        /\ preMap' = mapfile
        /\ UNCHANGED << mapfile, files, preview_text >>
        /\ IF ~csv.exists
           THEN \* lines 138-140
                /\ diag' = << Diag("Mapping CSV not found", 0) >>
                /\ actions' = << >> /\ log' = << >> /\ raised' = FALSE
                /\ UNCHANGED disk
           ELSE IF rows = << >>
           THEN \* line 144: reader.fieldnames is None, "in" is a TypeError
                /\ diag' = << >>
                /\ actions' = << >> /\ log' = << >> /\ raised' = TRUE
                /\ UNCHANGED disk
           ELSE IF name_raw \notin Range(rows[1]) \/ name_change \notin Range(rows[1])
           THEN \* lines 144-146
                /\ diag' = << Diag("CSV must contain headers: name_raw,name_change", 0) >>
                /\ actions' = << >> /\ log' = << >> /\ raised' = FALSE
                /\ UNCHANGED disk
           ELSE \E p \in { CsvPlan(disk, Dir, rows[1], Tail(rows), 1, ls) } :
                \E bad \in Refusals(p.actions, dry_run) :
                \E r \in { TryRun(plat, disk, p.actions, 1, dry_run, bad) } :
                    /\ diag' = p.diag
                    /\ actions' = p.actions
                    /\ log' = r.log
                    /\ raised' = FALSE
                    /\ disk' = r.fs

\* --apply-csv with a mapping file the user wrote
ApplyCsvMapping ==
    /\ stage = "fresh"
    /\ files = << >>
    /\ \E csv \in CsvInputs : ApplyCsv(csv)
    /\ stage' = "ran"
    /\ UNCHANGED planned

\* --apply-csv with the mapping file that the command before wrote, the
\* directory being as that command found it
ApplyExportedMapping ==
    /\ stage = "ran"
    /\ op \in {"rename_sequence", "export_csv"}
    /\ mapfile.exists
    /\ mapfile # preMap
    /\ disk = pre
    /\ ApplyCsv(mapfile)
    /\ stage' = "replayed"
    /\ planned' = actions

(***************************************************************************)
(* Graphical front end                                                     *)
(***************************************************************************)

\* add_files, lines 184-191, the dialog giving one path
AddFiles ==
    /\ stage = "fresh"
    /\ \E p \in disk :
        /\ p \notin Range(files)
        /\ files' = Append(files, p)
    /\ UNCHANGED << disk, mapfile, preview_text, stage, op, args, collected,
                    actions, log, raised, diag, pre, preMap, planned >>

\* The files add_folder collects, lines 199-216: those of the folder, or of
\* the folder and the directories under it, that end with an extension,
\* sorted (see find_images)
Collect(fs, folder, recursive, sort_by) ==
    LET found == { p \in fs :
                     /\ \E e \in Exts : EndsWith(Lower(Basename(p)), e)
                     /\ IF recursive
                        THEN StartsWith(p, folder \o << "/" >>)
                        ELSE Dirname(p) = folder }
    IN  IF sort_by = "mtime" THEN Perms(found)
        ELSE { f \in Perms(found) :
                 \A i \in 1..(Len(f) - 1) :
                    ~KeyLess(natural_key(Basename(f[i + 1])), natural_key(Basename(f[i]))) }

\* add_folder, lines 193-222
AddFolder ==
    /\ stage = "fresh"
    /\ \E folder \in Dirs, recursive \in BOOLEAN, sort_by \in {"name", "mtime"} :
        \E c \in Collect(disk, folder, recursive, sort_by) :
            LET New(p) == p \notin Range(files)
            IN  /\ SelectSeq(c, New) # << >>
                /\ files' = files \o SelectSeq(c, New)
    /\ UNCHANGED << disk, mapfile, preview_text, stage, op, args, collected,
                    actions, log, raised, diag, pre, preMap, planned >>

\* clear_files, lines 224-227
ClearFiles ==
    /\ stage = "fresh"
    /\ files # << >>
    /\ files' = << >>
    /\ preview_text' = << >>
    /\ UNCHANGED << disk, mapfile, stage, op, args, collected,
                    actions, log, raised, diag, pre, preMap, planned >>

GuiArgs(pattern, start, padding) ==
    [NoArgs EXCEPT !.pattern = pattern, !.start = start, !.padding = padding]

\* preview, lines 257-264
Preview ==
    /\ stage = "fresh"
    /\ files # << >>
    /\ \E pattern \in Patterns, start \in Starts, padding \in Paddings :
        \E plan \in { build_actions(disk, files, pattern, start, padding) } :
            /\ preview_text' = PreviewLines(plan)
            /\ op' = "preview"
            /\ args' = GuiArgs(pattern, start, padding)
            /\ actions' = plan
    /\ collected' = files
    /\ log' = << >> /\ raised' = FALSE /\ diag' = << >>
    /\ stage' = "ran"
    /\ pre' = disk
    /\ preMap' = mapfile
    /\ UNCHANGED << disk, mapfile, files, planned >>

\* rename, lines 266-290, the user confirming
Rename ==
    /\ stage = "fresh"
    /\ files # << >>
    /\ \E pattern \in Patterns, start \in Starts, padding \in Paddings :
        \E plan \in { build_actions(disk, files, pattern, start, padding) } :
        \E plat \in Platforms, bad \in Refusals(plan, FALSE) :
        \E r \in { TryRun(plat, disk, plan, 1, FALSE, bad) } :
        \E kept \in { LET OnDisk(x) == Exists(r.fs, x.dst)
                          left == SelectSeq(plan, OnDisk)
                      IN  [k \in 1..Len(left) |-> left[k].dst] } :
            /\ disk' = r.fs
            /\ files' = kept
            /\ preview_text' = IF kept = << >> THEN << >>
                               ELSE PreviewLines(build_actions(r.fs, kept, pattern, start, padding))
            /\ op' = "rename"
            /\ args' = GuiArgs(pattern, start, padding)
            /\ actions' = plan
            /\ log' = r.log
            /\ diag' = IF \E k \in 1..Len(r.log) : r.log[k].res = "error"
                       THEN << Diag("Some renames failed", 0) >>
                       ELSE << Diag("Renamed", Len(plan)) >>
    /\ collected' = files
    /\ raised' = FALSE
    /\ stage' = "ran"
    /\ pre' = disk
    /\ preMap' = mapfile
    /\ UNCHANGED << mapfile, planned >>

\* export_csv, lines 292-308, the dialog giving the mapping file's path
ExportCsv ==
    /\ stage = "fresh"
    /\ files # << >>
    /\ \E pattern \in Patterns, start \in Starts, padding \in Paddings, writable \in BOOLEAN :
        \E plan \in { build_actions(disk, files, pattern, start, padding) } :
            /\ mapfile' = IF writable THEN Written(plan) ELSE mapfile
            /\ diag' = IF writable THEN << Diag("Mapping saved", 0) >>
                       ELSE << Diag("Failed to write CSV", 0) >>
            /\ op' = "export_csv"
            /\ args' = [GuiArgs(pattern, start, padding) EXCEPT !.map_csv = TRUE]
            /\ actions' = plan
    /\ collected' = files
    /\ log' = << >> /\ raised' = FALSE
    /\ stage' = "ran"
    /\ pre' = disk
    /\ preMap' = mapfile
    /\ UNCHANGED << disk, files, preview_text, planned >>

Next ==
    \/ RenameSequence
    \/ ApplyCsvMapping
    \/ ApplyExportedMapping
    \/ AddFiles
    \/ AddFolder
    \/ ClearFiles
    \/ Preview
    \/ Rename
    \/ ExportCsv

Spec == Init /\ [][Next]_vars

(***************************************************************************)
(* Properties                                                              *)
(***************************************************************************)

\* The handlers whose plan comes from the Plan Builder
PatternOps == {"rename_sequence", "preview", "rename", "export_csv"}

\* The last call was a live run of a handler that executes a plan
LiveRun ==
    \/ op = "rename_sequence" /\ ~args.dry_run
    \/ op = "apply_csv_mapping" /\ ~args.dry_run
    \/ op = "rename"

\* The last call read a mapping file whose header row has both columns
HeaderOk ==
    /\ op = "apply_csv_mapping"
    /\ args.csv.exists
    /\ ReadRows(args.csv.rows) # << >>
    /\ name_raw \in Range(ReadRows(args.csv.rows)[1])
    /\ name_change \in Range(ReadRows(args.csv.rows)[1])

\* C1: no two actions of a plan built by the Plan Builder (rename_sequence,
\* _build_actions) have the same destination path.
C1_DistinctDestinations ==
    op \in PatternOps =>
        \A i, j \in 1..Len(actions) : i # j => actions[i].dst # actions[j].dst

\* C2: in a live run of rename_sequence, apply_csv_mapping or the GUI's
\* rename, every action of the plan is attempted, in plan order, a failed
\* rename does not end the call, and every rename applied is on disk at the
\* end.
C2_FailureDoesNotStopTheRun ==
    LiveRun /\ (op = "apply_csv_mapping" => HeaderOk) =>
        /\ ~raised
        /\ Len(log) = Len(actions)
        /\ \A k \in 1..Len(log) :
            /\ log[k].k = k
            /\ log[k].res \in {"ok", "error"}
            /\ log[k].res = "ok" => actions[k].dst \in disk

\* The last call was a dry run of one of the command-line entry points
DryRun == op \in {"rename_sequence", "apply_csv_mapping"} /\ args.dry_run

\* Every action of the plan is reported as would-be-applied, in plan order
AllReportedDry ==
    /\ Len(log) = Len(actions)
    /\ \A k \in 1..Len(log) : log[k] = Entry(k, "DRY-RUN", "none")

\* C3 as stated: after a dry run of rename_sequence or apply_csv_mapping the
\* same paths exist as before the call, the mapping export path included,
\* and every action is reported as would-be-applied.
C3_DryRunTouchesNothing ==
    DryRun =>
        /\ disk = pre
        /\ mapfile.exists = preMap.exists
        /\ AllReportedDry

\* C3, amended: a dry run renames no file and reports every action as
\* would-be-applied; the only path it may create or change is the mapping
\* export path, which rename_sequence writes, with the rows of the plan,
\* when --map-csv is given.
C3_DryRunRenamesNothing ==
    DryRun =>
        /\ disk = pre
        /\ AllReportedDry
        /\ mapfile # preMap =>
            /\ op = "rename_sequence"
            /\ args.map_csv
            /\ mapfile = Written(actions)

\* C3 witness: a dry run of rename_sequence over two files that wrote the
\* mapping file
C3_Witness ==
    /\ op = "rename_sequence"
    /\ args.dry_run
    /\ args.map_csv
    /\ Len(actions) = 2
    /\ ~preMap.exists
    /\ mapfile.exists

\* The directory in which the last call resolved the name of action x: the
\* --dir of the command line, the folder of the source in the GUI
ResolveDir(x) ==
    IF op \in {"rename_sequence", "apply_csv_mapping"} THEN args.directory
    ELSE Dirname(x.src)

\* The name the Collision Resolver returned for action x
Resolved(x) == From(x.dst, Len(ResolveDir(x)) + 1)

\* stem + "_" + i + extension
Suffixed(candidate, i) ==
    Splitext(candidate)[1] \o << "_" >> \o Str(i) \o Splitext(candidate)[2]

\* C4: for every name handed to next_free_name while planning (x.name, in
\* the directory as it was at the call), the result is the candidate itself
\* when directory/candidate does not exist, and otherwise stem_i.ext for the
\* smallest i >= 1 whose path does not exist; the result does not exist in
\* the directory, and resolving it again returns it unchanged.
C4_NextFreeName ==
    \A k \in 1..Len(actions) :
        LET x == actions[k]
            d == ResolveDir(x)
        IN  /\ x.dst = Join(d, Resolved(x))
            /\ IF ~Exists(pre, Join(d, x.name))
               THEN Resolved(x) = x.name
               ELSE \E i \in 1..(Cardinality(pre) + 1) :
                        /\ Resolved(x) = Suffixed(x.name, i)
                        /\ \A j \in 1..(i - 1) : Exists(pre, Join(d, Suffixed(x.name, j)))
            /\ ~Exists(pre, x.dst)
            /\ next_free_name(pre, d, Resolved(x)) = Resolved(x)

\* C4 witness: a plan with a candidate that was free and a candidate whose
\* path and whose suffix _1 both existed, resolved to the suffix _2
C4_Witness ==
    /\ \E k \in 1..Len(actions) :
        /\ Exists(pre, Join(ResolveDir(actions[k]), actions[k].name))
        /\ Exists(pre, Join(ResolveDir(actions[k]), Suffixed(actions[k].name, 1)))
        /\ Resolved(actions[k]) = Suffixed(actions[k].name, 2)
    /\ \E k \in 1..Len(actions) : Resolved(actions[k]) = actions[k].name

\* The (source basename, destination basename) pairs of a plan
BasenamePairs(plan) ==
    { << Basename(plan[k].src), Basename(plan[k].dst) >> : k \in 1..Len(plan) }

\* C5: when the mapping file a plan was exported to is imported at once by
\* apply_csv_mapping, the directory being as the exporting call found it,
\* the imported actions have the same set of (source basename, destination
\* basename) pairs as the exported plan.
C5_RoundTrip ==
    stage = "replayed" => BasenamePairs(actions) = BasenamePairs(planned)

\* The last call read a mapping file whose header row lacks name_raw or
\* name_change, or that has no header row at all
HeaderBad ==
    /\ op = "apply_csv_mapping"
    /\ args.csv.exists
    /\ ~HeaderOk

\* C6: when the mapping file does not have both header columns, a file
\* without any header row included, apply_csv_mapping ends without raising,
\* reports the format error, returns no action and leaves the directory as
\* it was.
C6_BadHeaderIsReported ==
    HeaderBad =>
        /\ ~raised
        /\ diag = << Diag("CSV must contain headers: name_raw,name_change", 0) >>
        /\ actions = << >>
        /\ log = << >>
        /\ disk = pre

\* The data rows of the mapping file the last call read, and their two
\* fields, stripped
DataRows == Tail(ReadRows(args.csv.rows))
RawOf(i) == Strip(Field(ReadRows(args.csv.rows)[1], DataRows[i], name_raw))
WantOf(i) == Strip(Field(ReadRows(args.csv.rows)[1], DataRows[i], name_change))

\* Row i names an existing path of the directory exactly / an entry of the
\* directory up to case
ExactMatch(i) == Exists(pre, Join(args.directory, RawOf(i)))
CaseMatch(i) ==
    \E name \in Listdir(pre, args.directory) : Lower(name) = Lower(RawOf(i))

\* Row i is neither blank nor unresolved
UsableRow(i) ==
    /\ RawOf(i) # << >>
    /\ WantOf(i) # << >>
    /\ ExactMatch(i) \/ CaseMatch(i)

\* C7: an import whose header is right never raises; its actions are, in row
\* order, one for every row that is neither blank in a field nor unmatched
\* in the directory, every other row being skipped with a diagnostic; the
\* source of an action is the entry named exactly if there is one, and
\* otherwise an entry equal to the name up to case.
C7_RowsSkippedOrResolved ==
    HeaderOk =>
        /\ ~raised
        /\ \A k \in 1..Len(actions) : actions[k].n \in 1..Len(DataRows)
        /\ \A k \in 1..(Len(actions) - 1) : actions[k].n < actions[k + 1].n
        /\ { actions[k].n : k \in 1..Len(actions) }
              = { i \in 1..Len(DataRows) : UsableRow(i) }
        /\ { diag[k].row : k \in 1..Len(diag) }
              = { i \in 1..Len(DataRows) : ~UsableRow(i) }
        /\ \A k \in 1..Len(actions) :
            LET i == actions[k].n
            IN  /\ IF ExactMatch(i)
                   THEN actions[k].src = Join(args.directory, RawOf(i))
                   ELSE /\ Dirname(actions[k].src) = args.directory
                        /\ Basename(actions[k].src) \in Listdir(pre, args.directory)
                        /\ Lower(Basename(actions[k].src)) = Lower(RawOf(i))

\* C7 witness: an import with a skipped row, an action whose source was
\* found by its exact name and an action whose source was found up to case
C7_Witness ==
    /\ HeaderOk
    /\ \E i \in 1..Len(DataRows) : ~UsableRow(i)
    /\ \E k \in 1..Len(actions) : ExactMatch(actions[k].n)
    /\ \E k \in 1..Len(actions) :
        /\ ~ExactMatch(actions[k].n)
        /\ Basename(actions[k].src) # RawOf(actions[k].n)

\* C8: in every plan (of rename_sequence, of _build_actions, of
\* apply_csv_mapping) the destination of an action lies in the directory of
\* its source.
C8_SameParentDirectory ==
    \A k \in 1..Len(actions) : Dirname(actions[k].dst) = Dirname(actions[k].src)

\* The action the last call's planner makes of source src at index n, the
\* directory being as the call found it
ItemAt(src, n) ==
    IF op = "rename_sequence" THEN SeqItem(pre, args, Basename(src), n)
    ELSE GuiItem(pre, Strip(args.pattern), args.padding, src, n)

\* C9: a plan of rename_sequence or _build_actions has one action per
\* collected file, in the collector's order, and its k-th action (from 1)
\* is the k-th file rendered with the index start + k - 1, whatever
\* collision resolution did to the names before it.
C9_IndexAdvancesByOne ==
    op \in PatternOps =>
        /\ Len(actions) = Len(collected)
        /\ \A k \in 1..Len(actions) :
            /\ actions[k].src = collected[k]
            /\ actions[k].n = args.start + k - 1
            /\ actions[k] = ItemAt(collected[k], args.start + k - 1)

\* C9 witness: a plan of two actions, the name of the first changed by
\* collision resolution, the second rendered with start + 1 to a name that
\* the index start would not have given
C9_Witness ==
    /\ op \in PatternOps
    /\ Len(actions) = 2
    /\ Resolved(actions[1]) # actions[1].name
    /\ actions[2].n = args.start + 1
    /\ actions[2] # ItemAt(collected[2], args.start)

\* The last call built a plan in the GUI from a pattern with the literal -n
\* and a padding p > 0
TokenPadded ==
    /\ op \in {"preview", "rename", "export_csv"}
    /\ Contains(Strip(args.pattern), TokenN)
    /\ args.padding > 0

\* The name action x gets when text t stands for every -n of the pattern
NameWith(x, t) ==
    LET b == Replace(Strip(args.pattern), TokenN, t)
    IN  IF Splitext(b)[2] = << >> THEN b \o Splitext(x.src)[2] ELSE b

IsDigits(t) == \A i \in 1..Len(t) : IsDigit(t[i])

\* C10 as stated: with a pattern holding -n and a padding p > 0, the text
\* put for -n in every name of the plan is exactly p digits long.
C10_ExactlyPaddingDigits ==
    TokenPadded =>
        \A k \in 1..Len(actions) :
            /\ actions[k].name = NameWith(actions[k], actions[k].text)
            /\ IsDigits(actions[k].text)
            /\ Len(actions[k].text) = args.padding

\* C10, amended: the text put for -n is the decimal text of the index
\* filled with zeros on the left up to p characters, never cut: for an
\* index n >= 0 it is all digits, reads as n, and is as long as the larger
\* of p and the number of digits of n.
C10_AtLeastPaddingDigits ==
    TokenPadded =>
        \A k \in 1..Len(actions) :
            /\ actions[k].name = NameWith(actions[k], actions[k].text)
            /\ IsDigits(actions[k].text)
            /\ IntOf(actions[k].text) = actions[k].n
            /\ Len(actions[k].text) =
                 IF Len(Str(actions[k].n)) > args.padding
                 THEN Len(Str(actions[k].n)) ELSE args.padding

\* C10 witness: a plan over two files whose first index text has p digits
\* and whose second, the index having grown by a digit, has p + 1
C10_Witness ==
    /\ TokenPadded
    /\ Len(actions) = 2
    /\ Len(actions[1].text) = args.padding
    /\ Len(actions[2].text) = args.padding + 1

\* The last call built a plan in the GUI
GuiOps == {"preview", "rename", "export_csv"}

\* A rendered name with the extension of the source put on when it has none
WithExt(name, src) ==
    IF Splitext(name)[2] = << >> THEN name \o Splitext(src)[2] ELSE name

\* C11: when the pattern holds the placeholder marker {n, the plan builder
\* of the GUI renders by the placeholder first, whatever the padding and
\* also when the pattern holds -n as well: the name is the formatted
\* pattern, and -n is replaced by the index only when formatting fails.
C11_PlaceholderFirst ==
    op \in GuiOps /\ Contains(Strip(args.pattern), PlaceholderN) =>
        \A k \in 1..Len(actions) :
            LET f == Format(Strip(args.pattern), actions[k].n)
            IN  actions[k].name =
                  WithExt(IF f.ok THEN f.val
                          ELSE Replace(Strip(args.pattern), TokenN, Str(actions[k].n)),
                          actions[k].src)

\* The pattern the last call rendered: the GUI strips its entry
PatternOf == IF op = "rename_sequence" THEN args.pattern ELSE Strip(args.pattern)

\* Formatting the pattern of the last call with the index of action x fails
FormatFails(x) == PatternOf # << >> /\ ~Format(PatternOf, x.n).ok

\* C12: when formatting the pattern fails, the name is the pattern with
\* every -n replaced by the decimal index, or the pattern followed by the
\* decimal index when it holds no -n; hence two actions of a plan whose
\* rendering failed have different names.
C12_FallbackKeepsTheIndex ==
    op \in PatternOps =>
        /\ \A k \in 1..Len(actions) :
            FormatFails(actions[k]) =>
                actions[k].name =
                  WithExt(IF Contains(PatternOf, TokenN)
                          THEN Replace(PatternOf, TokenN, Str(actions[k].n))
                          ELSE PatternOf \o Str(actions[k].n),
                          actions[k].src)
        /\ \A j, k \in 1..Len(actions) :
            /\ j # k
            /\ FormatFails(actions[j])
            /\ FormatFails(actions[k])
            /\ Splitext(actions[j].src)[2] = Splitext(actions[k].src)[2]
            => actions[j].name # actions[k].name

\* C13: a live run of rename_sequence, apply_csv_mapping or the GUI's rename
\* destroys no file: no rename lands on a path that exists, so as many
\* files exist after the run as before it.
C13_NoFileDestroyed ==
    LiveRun => Cardinality(disk) = Cardinality(pre)

\* The data rows of the mapping file as it is now
RecordedRows ==
    IF mapfile.exists /\ mapfile.rows # << >> THEN Range(Tail(mapfile.rows)) ELSE {}

\* C14: when a live run of rename_sequence with a mapping export path has
\* ended, by its return or by an exception, and writing the file was not
\* refused, every rename the run applied is a row (source basename,
\* destination basename) of the mapping file.
C14_AppliedRenamesAreRecorded ==
    /\ op = "rename_sequence"
    /\ ~args.dry_run
    /\ args.map_csv
    /\ diag # << Diag("Warning: failed to write mapping file", 0) >>
    => \A k \in 1..Len(log) :
          log[k].res = "ok" =>
              << Basename(actions[k].src), Basename(actions[k].dst) >> \in RecordedRows

====
